---- MODULE Spec2Model ----
(***************************************************************************)
(* Model of the github-issue-url crate (src/src/lib.rs, src/src/error.rs). *)
(*                                                                         *)
(* An Issue holds repository_name, repository_owner and params, a vector   *)
(* of (key, value) pairs.  Issue::new validates the two names, the seven   *)
(* setters push one pair each, and Issue::url formats the "new issue"      *)
(* address, hands it to Url::parse_with_params together with the pairs     *)
(* and returns the serialization.                                          *)
(*                                                                         *)
(* Text is modelled by TLA+ strings; a character is a string of length 1.  *)
(* The alphabet is printable ASCII, so a character is one UTF-8 byte.      *)
(***************************************************************************)
EXTENDS Integers, Sequences, FiniteSets, TLC

VARIABLES
    args,              \* the arguments the caller passes to Issue::new
    repository_name,   \* Issue.repository_name  ("" before construction)
    repository_owner,  \* Issue.repository_owner ("" before construction)
    params,            \* Issue.params
    constructed,       \* TRUE once Issue::new has returned Ok(Issue)
    call,              \* the last call made: [op, arg]
    ret,               \* what the last call returned: [tag, val]
    reads,             \* url() calls made since the last setter call
    message            \* the text of the last err.to_string(), "" if none

vars == <<args, repository_name, repository_owner, params, constructed, call, ret, reads, message>>

(***************************************************************************)
(* Bounds of the model.                                                    *)
(***************************************************************************)
MaxParams == 2

MaxReads == 2

(***************************************************************************)
(* Characters and bytes.                                                   *)
(***************************************************************************)
\* printable ASCII from space (32) to '_' (95) and from 'a' (97) to '~' (126);
\* byte 96 cannot be written in a TLA+ string and is left out of the alphabet
AsciiLow == " !\"#$%&'()*+,-./0123456789:;<=>?@ABCDEFGHIJKLMNOPQRSTUVWXYZ[\\]^_"

AsciiHigh == "abcdefghijklmnopqrstuvwxyz{|}~"

HexDigits == "0123456789ABCDEF"

At(s, i) == SubSeq(s, i, i)

Chars(s) == {At(s, i) : i \in 1..Len(s)}

Alphabet == Chars(AsciiLow) \cup Chars(AsciiHigh)

\* the UTF-8 byte of every character of the alphabet
Bytes ==
    [c \in Alphabet |->
        IF c \in Chars(AsciiLow)
        THEN 31 + (CHOOSE i \in 1..Len(AsciiLow) : At(AsciiLow, i) = c)
        ELSE 96 + (CHOOSE i \in 1..Len(AsciiHigh) : At(AsciiHigh, i) = c)]

Ord(c) == Bytes[c]

\* the character of a byte
Chr(b) == IF b < 96 THEN At(AsciiLow, b - 31) ELSE At(AsciiHigh, b - 96)

Digits == Chars("0123456789")

Letters == Chars("ABCDEFGHIJKLMNOPQRSTUVWXYZ") \cup Chars("abcdefghijklmnopqrstuvwxyz")

IsAlnum(c) == c \in Digits \/ c \in Letters

\* percent_encoding::percent_encode_byte: "%XX", upper-case hexadecimal
percent_encode_byte(c) ==
    "%" \o At(HexDigits, (Ord(c) \div 16) + 1) \o At(HexDigits, (Ord(c) % 16) + 1)

\* the serializer with the space percent-encoded like any other byte
byte_serialize_char_percent(c) ==
    IF IsAlnum(c) \/ c \in {"*", "-", ".", "_"} THEN c ELSE percent_encode_byte(c)

(***************************************************************************)
(* form_urlencoded::byte_serialize, which extend_pairs applies to every    *)
(* key and every value: '*', '-', '.', '_' and ASCII letters and digits    *)
(* are kept, a space becomes '+', every other byte becomes %XX.            *)
(***************************************************************************)
byte_serialize_char(c) ==
    IF IsAlnum(c) \/ c \in {"*", "-", ".", "_"} THEN c
    ELSE IF c = " " THEN "+"
    ELSE percent_encode_byte(c)

\* the bytes are serialized one by one and concatenated; the two halves are
\* taken apart here only to keep the evaluation shallow
RECURSIVE byte_serialize(_)
byte_serialize(s) ==
    IF s = "" THEN ""
    ELSE IF Len(s) = 1 THEN byte_serialize_char(s)
    ELSE byte_serialize(SubSeq(s, 1, Len(s) \div 2))
             \o byte_serialize(SubSeq(s, Len(s) \div 2 + 1, Len(s)))

(***************************************************************************)
(* The percent-encode sets of the URL parser (url::parser): FRAGMENT,      *)
(* PATH and SPECIAL_QUERY.  Control bytes and non-ASCII text are outside   *)
(* the alphabet of the model.                                              *)
(***************************************************************************)
FRAGMENT == {" ", "\"", "<", ">"}

PATH == FRAGMENT \cup {"#", "?", "{", "}"}

SPECIAL_QUERY == {" ", "\"", "#", "<", ">", "'"}

utf8_percent_encode_char(c, ascii_set) == IF c \in ascii_set THEN percent_encode_byte(c) ELSE c

RECURSIVE utf8_percent_encode(_, _)
utf8_percent_encode(s, ascii_set) ==
    IF s = "" THEN ""
    ELSE IF Len(s) = 1 THEN utf8_percent_encode_char(s, ascii_set)
    ELSE utf8_percent_encode(SubSeq(s, 1, Len(s) \div 2), ascii_set)
             \o utf8_percent_encode(SubSeq(s, Len(s) \div 2 + 1, Len(s)), ascii_set)

(***************************************************************************)
(* Issue::url, first statement: the text handed to the parser.             *)
(***************************************************************************)
Origin == "https://github.com"

format_repository_url(owner, name) == Origin \o "/" \o owner \o "/" \o name \o "/issues/new"

(***************************************************************************)
(* Url::parse on that text.  Scheme and host are the constant Origin, so   *)
(* the parser always reaches the path state; from there on the text is     *)
(* the caller's.  The path state of a special scheme splits segments at    *)
(* '/' and '\', stops at '?' or '#', percent-encodes with PATH, drops "."  *)
(* segments and lets ".." remove the segment before it.                    *)
(***************************************************************************)
IsSingleDot(seg) == seg \in {".", "%2e", "%2E"}

IsDoubleDot(seg) ==
    seg \in {"..", ".%2e", ".%2E", "%2e.", "%2E.", "%2e%2e", "%2E%2E", "%2e%2E", "%2E%2e"}

\* a segment is complete: slash tells whether a '/' ended it
end_segment(segs, seg, slash) ==
    IF IsDoubleDot(seg)
    THEN LET popped == IF segs = <<>> THEN segs ELSE SubSeq(segs, 1, Len(segs) - 1)
         IN  IF slash THEN popped ELSE Append(popped, "")
    ELSE IF IsSingleDot(seg)
    THEN IF slash THEN segs ELSE Append(segs, "")
    ELSE Append(segs, seg)

\* scans input from position i; yields the segments and the position of the
\* '?' or '#' that ended the path (Len(input) + 1 if none did)
RECURSIVE parse_path(_, _, _, _)
parse_path(input, i, segs, seg) ==
    IF i > Len(input) \/ At(input, i) \in {"?", "#"}
    THEN [segments |-> end_segment(segs, seg, FALSE), next |-> i]
    ELSE IF At(input, i) \in {"/", "\\"}
    THEN parse_path(input, i + 1, end_segment(segs, seg, TRUE), "")
    ELSE parse_path(input, i + 1, segs, seg \o utf8_percent_encode_char(At(input, i), PATH))

\* the position of the first c in input at or after i (Len(input) + 1 if none)
find_from(input, i, c) ==
    LET hits == {j \in i..Len(input) : At(input, j) = c}
    IN  IF hits = {} THEN Len(input) + 1 ELSE CHOOSE j \in hits : \A k \in hits : j <= k

RECURSIVE join_segments(_)
join_segments(segs) ==
    IF segs = <<>> THEN "" ELSE "/" \o Head(segs) \o join_segments(Tail(segs))

\* the parsed Url: the path, the query (has_query FALSE is None) and the
\* fragment (has_fragment FALSE is None)
parse(input) ==
    LET p    == parse_path(input, Len(Origin) + 2, <<>>, "")
        q    == p.next
        hasQ == q <= Len(input) /\ At(input, q) = "?"
        h    == find_from(input, q, "#")
        hasF == h <= Len(input)
    IN  [path         |-> IF p.segments = <<>> THEN "/" ELSE join_segments(p.segments),
         has_query    |-> hasQ,
         query        |-> IF hasQ
                          THEN utf8_percent_encode(SubSeq(input, q + 1, h - 1), SPECIAL_QUERY)
                          ELSE "",
         has_fragment |-> hasF,
         fragment     |-> IF hasF
                          THEN utf8_percent_encode(SubSeq(input, h + 1, Len(input)), FRAGMENT)
                          ELSE ""]

(***************************************************************************)
(* url.query_pairs_mut().extend_pairs(iter): query_pairs_mut turns a       *)
(* missing query into an empty one; every pair is appended as key=value,   *)
(* both serialized by byte_serialize, with '&' before it when the query    *)
(* is not empty.                                                           *)
(***************************************************************************)
append_pair(query, pair) ==
    (IF query = "" THEN "" ELSE query \o "&")
        \o byte_serialize(pair[1]) \o "=" \o byte_serialize(pair[2])

RECURSIVE extend_pairs(_, _)
extend_pairs(query, pairs) ==
    IF pairs = <<>> THEN query ELSE extend_pairs(append_pair(query, Head(pairs)), Tail(pairs))

query_pairs_mut(url) == [url EXCEPT !.has_query = TRUE]

parse_with_params(input, pairs) ==
    LET url == query_pairs_mut(parse(input))
    IN  [url EXCEPT !.query = extend_pairs(url.query, pairs)]

\* Url::to_string: the serialization
to_string(url) ==
    Origin \o url.path
        \o (IF url.has_query THEN "?" \o url.query ELSE "")
        \o (IF url.has_fragment THEN "#" \o url.fragment ELSE "")

\* Issue::url as a function of the fields it reads
url(owner, name, pairs) == to_string(parse_with_params(format_repository_url(owner, name), pairs))

\* the Display texts of the two construction errors exchanged
Display_exchanged(err, detail) ==
    CASE err = "EmptyRepositoryOwner" -> "Repository name is not defined"
      [] err = "EmptyRepositoryName"  -> "Repository owner name is not defined"
      [] err = "UrlParseError"        -> "Failed to parse URL with provided params. " \o detail

(***************************************************************************)
(* error.rs: the Display text of each Error variant.                       *)
(***************************************************************************)
Display(err, detail) ==
    CASE err = "EmptyRepositoryOwner" -> "Repository owner name is not defined"
      [] err = "EmptyRepositoryName"  -> "Repository name is not defined"
      [] err = "UrlParseError"        -> "Failed to parse URL with provided params. " \o detail

(***************************************************************************)
(* Return values: Ok(v), Err(e) and the unit value of a setter.            *)
(***************************************************************************)
Ok(v) == [tag |-> "Ok", val |-> v]

Err(e) == [tag |-> "Err", val |-> e]

Unit == [tag |-> "Unit", val |-> ""]

\* the constructor with the owner checked before the name
new_owner_first(name, owner) ==
    IF owner = "" THEN Err("EmptyRepositoryOwner")
    ELSE IF name = "" THEN Err("EmptyRepositoryName")
    ELSE Ok("Issue")

(***************************************************************************)
(* Issue::new: the name is checked first, then the owner.                  *)
(***************************************************************************)
new(name, owner) ==
    IF name = "" THEN Err("EmptyRepositoryName")
    ELSE IF owner = "" THEN Err("EmptyRepositoryOwner")
    ELSE Ok("Issue")

New ==
    /\ call.op = "none"
    /\ ret' = new(args.repository_name, args.repository_owner)
    /\ call' = [op |-> "new", arg |-> ""]
    /\ IF ret'.tag = "Ok"
       THEN /\ repository_name' = args.repository_name
            /\ repository_owner' = args.repository_owner
            /\ params' = <<>>
            /\ constructed' = TRUE
       ELSE UNCHANGED <<repository_name, repository_owner, params, constructed>>
    /\ UNCHANGED <<args, reads, message>>

\* have.err().unwrap().to_string() on the Err that Issue::new returned
ErrToString ==
    /\ call.op = "new"
    /\ ret.tag = "Err"
    /\ message' = Display(ret.val, "")
    /\ call' = [op |-> "to_string", arg |-> ""]
    /\ UNCHANGED <<args, repository_name, repository_owner, params, constructed, ret, reads>>

\* a setter that keeps one pair per key: a second call overwrites the first
push_overwriting(key, value) ==
    /\ constructed
    /\ params' = IF \E i \in 1..Len(params) : params[i][1] = key
                 THEN [i \in 1..Len(params) |->
                          IF params[i][1] = key THEN <<key, value>> ELSE params[i]]
                 ELSE Append(params, <<key, value>>)
    /\ call' = [op |-> key, arg |-> value]
    /\ ret' = Unit
    /\ reads' = 0
    /\ UNCHANGED <<args, repository_name, repository_owner, constructed, message>>

(***************************************************************************)
(* The setters: self.params.push((key, value)).                            *)
(***************************************************************************)
push(key, value) ==
    /\ constructed
    /\ params' = Append(params, <<key, value>>)
    /\ call' = [op |-> key, arg |-> value]
    /\ ret' = Unit
    /\ reads' = 0
    /\ UNCHANGED <<args, repository_name, repository_owner, constructed, message>>

assignee(v) == push("assignee", v)

body(v) == push("body", v)

labels(v) == push("labels", v)

milestone(v) == push("milestone", v)

projects(v) == push("projects", v)

title(v) == push("title", v)

template(v) == push("template", v)

\* url() taking the pairs out of the builder instead of borrowing them
Url_draining ==
    /\ constructed
    /\ reads < MaxReads
    /\ ret' = Ok(url(repository_owner, repository_name, params))
    /\ call' = [op |-> "url", arg |-> ""]
    /\ reads' = reads + 1
    /\ params' = <<>>
    /\ UNCHANGED <<args, repository_name, repository_owner, constructed, message>>

(***************************************************************************)
(* Issue::url(&self).  With scheme and host constant the parser has no     *)
(* failing case, so the map_err branch (UrlParseError) is never taken.     *)
(***************************************************************************)
Url ==
    /\ constructed
    /\ reads < MaxReads
    /\ ret' = Ok(url(repository_owner, repository_name, params))
    /\ call' = [op |-> "url", arg |-> ""]
    /\ reads' = reads + 1
    /\ UNCHANGED <<args, repository_name, repository_owner, params, constructed, message>>

(***************************************************************************)
(* Specification: any owner and name from Owners and Names, setters        *)
(* called in any order with values from Values, at most MaxParams pairs.   *)
(***************************************************************************)
Names == {"", "r", "r x#y"}

Owners == {"", "o", "a?b", ".."}

Values == {"", "A b", "x:y,z&=%+?#"}

Fields == {"assignee", "body", "labels", "milestone", "projects", "title", "template"}

Blank ==
    /\ repository_name = ""
    /\ repository_owner = ""
    /\ params = <<>>
    /\ constructed = FALSE
    /\ call = [op |-> "none", arg |-> ""]
    /\ ret = Unit
    /\ reads = 0
    /\ message = ""

Init ==
    /\ args \in [repository_name : Names, repository_owner : Owners]
    /\ Blank

Room == Len(params) < MaxParams

Next ==
    \/ New
    \/ ErrToString
    \/ \E v \in Values : Room /\ assignee(v)
    \/ \E v \in Values : Room /\ body(v)
    \/ \E v \in Values : Room /\ labels(v)
    \/ \E v \in Values : Room /\ milestone(v)
    \/ \E v \in Values : Room /\ projects(v)
    \/ \E v \in Values : Room /\ title(v)
    \/ \E v \in Values : Room /\ template(v)
    \/ Url

Spec == Init /\ [][Next]_vars

(***************************************************************************)
(* Second specification: the builder of the crate's documentation and of   *)
(* tests::build_issue_url, and the two failing constructions of the other  *)
(* tests.  Every field is set at most once, with the value the test gives  *)
(* it, in any order; the test's own order is one of the behaviours.        *)
(***************************************************************************)
GITHUB_ISSUE_LINK == "https://github.com/EstebanBorai/github-issue-url/issues/new?title=Null%3A+The+Billion+Dollar+Mistake&body=Null+is+a+flag.+It+represents+different+situations+depending+on+the+context+in+which+it+is+used+and+invoked.+This+yields+the+most+serious+error+in+software+development%3A+Coupling+a+hidden+decision+in+the+contract+between+an+object+and+who+uses+it.&template=bug_report.md&labels=bug%2Cproduction%2Chigh-severity&assignee=EstebanBorai&milestone=1&projects=1"

SAMPLE_ISSUE_BODY == "Null is a flag. It represents different situations depending on the context in which it is used and invoked. This yields the most serious error in software development: Coupling a hidden decision in the contract between an object and who uses it."

DocParams ==
    << <<"title", "Null: The Billion Dollar Mistake">>,
       <<"body", SAMPLE_ISSUE_BODY>>,
       <<"template", "bug_report.md">>,
       <<"labels", "bug,production,high-severity">>,
       <<"assignee", "EstebanBorai">>,
       <<"milestone", "1">>,
       <<"projects", "1">> >>

DocValue(key) == DocParams[CHOOSE i \in 1..Len(DocParams) : DocParams[i][1] = key][2]

Fresh(key) == \A i \in 1..Len(params) : params[i][1] # key

DocInit ==
    /\ args \in [repository_name : {"", "github-issue-url"}, repository_owner : {"", "EstebanBorai"}]
    /\ Blank

DocNext ==
    \/ New
    \/ ErrToString
    \/ Fresh("assignee") /\ assignee(DocValue("assignee"))
    \/ Fresh("body") /\ body(DocValue("body"))
    \/ Fresh("labels") /\ labels(DocValue("labels"))
    \/ Fresh("milestone") /\ milestone(DocValue("milestone"))
    \/ Fresh("projects") /\ projects(DocValue("projects"))
    \/ Fresh("title") /\ title(DocValue("title"))
    \/ Fresh("template") /\ template(DocValue("template"))
    \/ Url

DocSpec == DocInit /\ [][DocNext]_vars

(***************************************************************************)
(* Reading a URL back, as a client of the returned text does: the query    *)
(* (Url::query: the text between the first '?' and the '#'), its entries   *)
(* (the pieces between '&', empty pieces skipped) and their decoding       *)
(* (form_urlencoded::parse: split at the first '=', '+' is a space, %XX    *)
(* is the byte XX).                                                        *)
(***************************************************************************)
Min(a, b) == IF a < b THEN a ELSE b

QueryStart(u) == find_from(u, 1, "?")

FragmentStart(u) == find_from(u, 1, "#")

HasQuery(u) == QueryStart(u) < Min(FragmentStart(u), Len(u) + 1)

QueryOf(u) == IF HasQuery(u) THEN SubSeq(u, QueryStart(u) + 1, FragmentStart(u) - 1) ELSE ""

BeforeQuery(u) == SubSeq(u, 1, Min(QueryStart(u), FragmentStart(u)) - 1)

\* the positions of sep in s, with 0 before and Len(s) + 1 after them
Cuts(s, sep) == {0, Len(s) + 1} \cup {i \in 1..Len(s) : At(s, i) = sep}

Kth(S, k) == CHOOSE x \in S : Cardinality({y \in S : y < x}) = k - 1

Pieces(s, sep) ==
    LET cuts == Cuts(s, sep)
    IN  [k \in 1..(Cardinality(cuts) - 1) |-> SubSeq(s, Kth(cuts, k) + 1, Kth(cuts, k + 1) - 1)]

Entries(q) == SelectSeq(Pieces(q, "&"), LAMBDA e : e # "")

HexValue(c) ==
    IF c \in Digits THEN Ord(c) - Ord("0")
    ELSE IF c \in Chars("ABCDEF") THEN Ord(c) - Ord("A") + 10
    ELSE Ord(c) - Ord("a") + 10

IsHex(c) == c \in Digits \cup Chars("ABCDEFabcdef")

RECURSIVE Decode(_)
Decode(s) ==
    IF s = "" THEN ""
    ELSE IF Head(s) = "+" THEN " " \o Decode(Tail(s))
    ELSE IF Head(s) = "%" /\ Len(s) >= 3 /\ IsHex(At(s, 2)) /\ IsHex(At(s, 3))
    THEN Chr(16 * HexValue(At(s, 2)) + HexValue(At(s, 3))) \o Decode(SubSeq(s, 4, Len(s)))
    ELSE Head(s) \o Decode(Tail(s))

DecodeEntry(e) ==
    LET eq == find_from(e, 1, "=")
    IN  <<Decode(SubSeq(e, 1, eq - 1)), Decode(SubSeq(e, eq + 1, Len(e)))>>

ParseQuery(q) == [i \in 1..Len(Entries(q)) |-> DecodeEntry(Entries(q)[i])]

Returned == call.op = "url" /\ ret.tag = "Ok"

(***************************************************************************)
(* C1.  Issue::new succeeds for every pair of non-empty strings, fails     *)
(* with EmptyRepositoryName whenever the name is empty, whatever the       *)
(* owner is, and fails with EmptyRepositoryOwner exactly when the name is  *)
(* non-empty and the owner is empty.                                       *)
(***************************************************************************)
C1_NewValidates ==
    call.op = "new" =>
        /\ (args.repository_name = "") <=> (ret = Err("EmptyRepositoryName"))
        /\ (args.repository_name # "" /\ args.repository_owner = "")
               <=> (ret = Err("EmptyRepositoryOwner"))
        /\ (args.repository_name # "" /\ args.repository_owner # "")
               <=> (ret.tag = "Ok" /\ constructed)
        /\ constructed =>
               /\ repository_name = args.repository_name
               /\ repository_owner = args.repository_owner
               /\ params = <<>>

C1_BothEmpty ==
    /\ call.op = "new"
    /\ args.repository_name = ""
    /\ args.repository_owner = ""
    /\ ret = Err("EmptyRepositoryName")

(***************************************************************************)
(* C2.  For a builder on which no setter has been called, url() returns    *)
(* exactly https://github.com/<owner>/<name>/issues/new, with no query     *)
(* string segment and no trailing '?'.                                     *)
(***************************************************************************)
C2_BareUrlIsBase ==
    (Returned /\ params = <<>>) =>
        /\ ret.val = format_repository_url(repository_owner, repository_name)
        /\ At(ret.val, Len(ret.val)) # "?"

(***************************************************************************)
(* C3.  The i-th key=value entry of the query string of the returned URL   *)
(* is the key and the encoded value of the i-th setter call.               *)
(***************************************************************************)
C3_EntriesInCallOrder ==
    Returned =>
        LET es == Entries(QueryOf(ret.val))
        IN  \A i \in 1..Len(params) :
                /\ i <= Len(es)
                /\ es[i] = params[i][1] \o "=" \o byte_serialize(params[i][2])

(***************************************************************************)
(* C4.  Round trip: parsing the query string of the returned URL into      *)
(* key/value pairs and percent-decoding them reproduces exactly the        *)
(* sequence of pairs the setters added.                                    *)
(***************************************************************************)
C4_RoundTrip == Returned => ParseQuery(QueryOf(ret.val)) = params

(***************************************************************************)
(* C5.  The part of the returned URL before the query string is exactly    *)
(* https://github.com/<owner>/<name>/issues/new, with the owner and the    *)
(* name as given to the constructor.                                       *)
(***************************************************************************)
C5_BaseBeforeQuery ==
    Returned => BeforeQuery(ret.val) = format_repository_url(args.repository_owner, args.repository_name)

(***************************************************************************)
(* C6.  Calling a setter twice never overwrites or deduplicates: the URL   *)
(* has one entry per call of that key, in call order, and the number of    *)
(* query entries equals the number of setter calls made.                   *)
(***************************************************************************)
WithKey(pairs, key) == SelectSeq(pairs, LAMBDA p : p[1] = key)

C6_OneEntryPerCall ==
    Returned =>
        LET got == ParseQuery(QueryOf(ret.val))
        IN  /\ Len(Entries(QueryOf(ret.val))) = Len(params)
            /\ \A key \in Fields : Len(WithKey(got, key)) = Len(WithKey(params, key))

(***************************************************************************)
(* C7.  url() is idempotent and read-only: repeated calls with no setter   *)
(* call in between return the identical result, and a call leaves the      *)
(* owner, the name and the pair sequence unchanged.                        *)
(***************************************************************************)
C7_UrlReadOnly ==
    [][call'.op = "url" =>
          /\ UNCHANGED <<repository_name, repository_owner, params>>
          /\ (call.op = "url" => ret' = ret)]_vars

C7_UrlTwice == call.op = "url" /\ reads = 2 /\ Len(params) = 2

(***************************************************************************)
(* C9.  A failed construction displays the message of its kind:            *)
(* EmptyRepositoryName "Repository name is not defined",                   *)
(* EmptyRepositoryOwner "Repository owner name is not defined", and        *)
(* neither kind displays the other's message.                              *)
(***************************************************************************)
C9_MessageOfKind ==
    call.op = "to_string" =>
        /\ (ret.val = "EmptyRepositoryName") <=> (message = "Repository name is not defined")
        /\ (ret.val = "EmptyRepositoryOwner") <=> (message = "Repository owner name is not defined")

C9_OwnerMessage ==
    /\ call.op = "to_string"
    /\ args = [repository_name |-> "r", repository_owner |-> ""]
    /\ ret = Err("EmptyRepositoryOwner")
    /\ message = "Repository owner name is not defined"

(***************************************************************************)
(* C10.  Each setter appends exactly one pair, its own field name with     *)
(* the argument unchanged, and leaves the owner, the name and the earlier  *)
(* pairs unchanged; so the owner and the name stay the non-empty values    *)
(* given at construction and every key is one of the seven field names.    *)
(***************************************************************************)
C10_Frame ==
    constructed =>
        /\ repository_name = args.repository_name /\ repository_name # ""
        /\ repository_owner = args.repository_owner /\ repository_owner # ""
        /\ \A i \in 1..Len(params) : params[i][1] \in Fields

C10_SettersAppend ==
    /\ []C10_Frame
    /\ [][call'.op \in Fields =>
             /\ params' = Append(params, <<call'.op, call'.arg>>)
             /\ UNCHANGED <<repository_name, repository_owner>>]_vars

C10_TitleTwice ==
    /\ call = [op |-> "title", arg |-> ""]
    /\ params = << <<"title", "A b">>, <<"title", "">> >>

(***************************************************************************)
(* C8.  Every value is encoded by the standard query-encoding rules: a     *)
(* space becomes '+', ':' becomes %3A, ',' becomes %2C, and letters,       *)
(* digits, '.', '_' and '-' are emitted unchanged; so the builder of the   *)
(* documentation, with title, body, template, labels, assignee, milestone  *)
(* and projects set in that order, yields exactly the documented URL.      *)
(***************************************************************************)
StandardChar(c) ==
    CASE c = " " -> "+"
      [] c = ":" -> "%3A"
      [] c = "," -> "%2C"
      [] IsAlnum(c) \/ c \in {".", "_", "-"} -> c

RECURSIVE Standard(_)
Standard(s) ==
    IF s = "" THEN ""
    ELSE IF Len(s) = 1 THEN StandardChar(s)
    ELSE Standard(SubSeq(s, 1, Len(s) \div 2)) \o Standard(SubSeq(s, Len(s) \div 2 + 1, Len(s)))

C8_StandardEncoding ==
    Returned =>
        LET es == Entries(QueryOf(ret.val))
        IN  /\ Len(es) = Len(params)
            /\ \A i \in 1..Len(params) : es[i] = params[i][1] \o "=" \o Standard(params[i][2])
            /\ params = DocParams => ret.val = GITHUB_ISSUE_LINK

C8_DocumentedUrl ==
    /\ Returned
    /\ args = [repository_name |-> "github-issue-url", repository_owner |-> "EstebanBorai"]
    /\ params = DocParams
    /\ ret.val = GITHUB_ISSUE_LINK

====
